---- MODULE Spec2Model ----
(***************************************************************************)
(* A model of huey/contrib/simple.py: the in-memory broker QueueServer     *)
(* (named FIFO queues, a key/value store, a heap-ordered schedule), its    *)
(* command dispatcher `respond` and its per-connection handler loop.       *)
(*                                                                         *)
(* The module is Python 2 code (str is the byte string read from the       *)
(* socket, BaseException has a `message` attribute); the model follows     *)
(* the Python 2 semantics, the only ones under which a request is ever     *)
(* decoded (under Python 3 the handler table, keyed by str, never matches  *)
(* the bytes read from the socket).                                        *)
(***************************************************************************)
EXTENDS Integers, Sequences, FiniteSets, TLC

(***************************************************************************)
(* Bounds of the model.                                                    *)
(***************************************************************************)
\* clients in all, one more than the pool has slots
NumConns == 3
\* requests read by the server, over all connections, in one run of Spec
MaxReqs == 3
\* the same, in one run of SpecQueue
MaxQueueReqs == 4
\* the same, in one run of SpecSched
MaxSchedReqs == 4
\* the same, in one run of SpecAdmit
MaxAdmitReqs == 1
\* writes made by the peers, over all connections, in one run of SpecFrame
MaxFrameSends == 2
\* the same, in one run of SpecCodec
MaxCodecSends == 2
\* the same, in one run of SpecNull
MaxNullSends == 2
\* requests read by the server, over all connections, in one run of SpecStamp
MaxStampReqs == 3
\* the same, in one run of SpecKV
MaxKVReqs == 3
\* the same, in one run of SpecRemove
MaxRemoveReqs == 4
\* the same, in one run of SpecFlush
MaxFlushReqs == 4
\* the same, in one run of SpecErr
MaxErrReqs == 3
\* the same, in one run of SpecWorkers
MaxWorkerReqs == 5
\* the same, in one run of SpecPollers
MaxPollReqs == 4

\* QueueServer.__init__(max_clients=64): the size of the gevent Pool that
\* spawns the connection handlers; scaled down to 2 so that the pool fills.
max_clients == 2

Conns == 1 .. NumConns

(***************************************************************************)
(* Python values, as the server holds them after decoding: str, int,       *)
(* None, list and the Error namedtuple.  Every value is a record with the  *)
(* same fields so that any two of them can be compared.                    *)
(***************************************************************************)
Str(x) == [tag |-> "str", s |-> x, n |-> 0, a |-> <<>>]
Integer(k) == [tag |-> "int", s |-> "", n |-> k, a |-> <<>>]
None == [tag |-> "none", s |-> "", n |-> 0, a |-> <<>>]
List(xs) == [tag |-> "list", s |-> "", n |-> 0, a |-> xs]
Error(m) == [tag |-> "Error", s |-> m, n |-> 0, a |-> <<>>]

Range(f) == {f[i] : i \in DOMAIN f}

\* str.upper(), on the command names the model sends.
upper(x) ==
  CASE x = "enqueue" -> "ENQUEUE"
    [] x = "length_kv" -> "LENGTH_KV"
    [] x = "foo" -> "FOO"
    [] OTHER -> x

\* str.split(), on the inline (non-array) requests the model sends.
split(x) ==
  CASE x = "" -> <<>>
    [] x = "LENGTH_KV" -> <<Str("LENGTH_KV")>>
    [] x = "DEQUEUE q" -> <<Str("DEQUEUE"), Str("q")>>
    [] x = "bar baz" -> <<Str("bar"), Str("baz")>>
    [] x = "a\r" -> <<Str("a")>>
    [] OTHER -> <<Str(x)>>

\* hash(v): a list is unhashable (TypeError), everything else the model
\* sends is hashable.
Hashable(v) == v.tag # "list"

(***************************************************************************)
(* The protocol codec: ProtocolHandler.  A byte is a one-character string, *)
(* a stream is what the socket file still holds (a sequence of bytes) and  *)
(* whether its writer has closed it (eof).  A Python float is held as a    *)
(* decimal m * 10^e with m not a multiple of 10 (0.0 is m = 0, e = 0).     *)
(***************************************************************************)
Float(m, e) == [tag |-> "float", s |-> "", n |-> m, a |-> <<Integer(e)>>]

CRLF == <<"\r", "\n">>

\* The bytes of the str values the model sends.
Bytes(x) ==
  CASE x = "" -> <<>>
    [] x = "ENQUEUE" -> <<"E", "N", "Q", "U", "E", "U", "E">>
    [] x = "LENGTH" -> <<"L", "E", "N", "G", "T", "H">>
    [] x = "DEQUEUE" -> <<"D", "E", "Q", "U", "E", "U", "E">>
    [] x = "SET" -> <<"S", "E", "T">>
    [] x = "GET" -> <<"G", "E", "T">>
    [] x = "POP" -> <<"P", "O", "P">>
    [] x = "abc" -> <<"a", "b", "c">>
    [] x = "ab" -> <<"a", "b">>
    [] x = "a\r" -> <<"a", "\r">>
    [] OTHER -> <<x>>

\* The str made of the bytes bs.
RECURSIVE Join(_)
Join(bs) == IF bs = <<>> THEN "" ELSE Head(bs) \o Join(Tail(bs))

DigitChars == <<"0", "1", "2", "3", "4", "5", "6", "7", "8", "9">>

IsDigits(bs) == bs # <<>> /\ \A i \in DOMAIN bs : bs[i] \in Range(DigitChars)

DigitVal(ch) == (CHOOSE i \in DOMAIN DigitChars : DigitChars[i] = ch) - 1

\* '%s' % k for a non-negative int k, and the number a digit string reads.
RECURSIVE Digits(_)
Digits(k) ==
  IF k < 10 THEN <<DigitChars[k + 1]>>
  ELSE Digits(k \div 10) \o <<DigitChars[(k % 10) + 1]>>

RECURSIVE Number(_)
Number(bs) ==
  IF bs = <<>> THEN 0
  ELSE Number(SubSeq(bs, 1, Len(bs) - 1)) * 10 + DigitVal(bs[Len(bs)])

Abs(k) == IF k < 0 THEN -k ELSE k

\* '%s' % k for an int k.
IntStr(k) == IF k < 0 THEN <<"-">> \o Digits(-k) ELSE Digits(k)

Zeros(k) == [i \in 1 .. k |-> "0"]

\* '%s' % x for a float x = m * 10^e: str(x) of Python 2, '%.12g' with '.0'
\* added to a result in fixed notation that has no point; the exponent
\* notation is used when the decimal exponent is < -4 or >= 12.
FloatStr(m, e) ==
  LET ds == Digits(Abs(m))
      nd == Len(ds)
      decpt == nd + e
      sign == IF m < 0 THEN <<"-">> ELSE <<>>
      x == decpt - 1
  IN  IF m = 0 THEN <<"0", ".", "0">>
      ELSE IF decpt <= -4 \/ decpt > 12
      THEN sign \o <<ds[1]>>
             \o (IF nd > 1 THEN <<".">> \o SubSeq(ds, 2, nd) ELSE <<>>)
             \o <<"e">> \o (IF x < 0 THEN <<"-">> ELSE <<"+">>)
             \o (IF Abs(x) < 10 THEN <<"0">> ELSE <<>>) \o Digits(Abs(x))
      ELSE IF e >= 0 THEN sign \o ds \o Zeros(e) \o <<".", "0">>
      ELSE IF decpt > 0
      THEN sign \o SubSeq(ds, 1, decpt) \o <<".">> \o SubSeq(ds, decpt + 1, nd)
      ELSE sign \o <<"0", ".">> \o Zeros(-decpt) \o ds

\* The result of a conversion: ok and the value, or the ValueError.
Parsed(v) == [ok |-> TRUE, v |-> v]
ValueError == [ok |-> FALSE, v |-> None]

\* An optional sign and the rest.
Sign(bs) == IF bs # <<>> /\ Head(bs) = "-" THEN -1 ELSE 1
Unsigned(bs) == IF bs # <<>> /\ Head(bs) \in {"-", "+"} THEN Tail(bs) ELSE bs

\* int(number): an optional sign and decimal digits, else ValueError.
int(number) ==
  IF IsDigits(Unsigned(number))
  THEN Parsed(Integer(Sign(number) * Number(Unsigned(number))))
  ELSE ValueError

\* The float m * 10^e with m brought to no trailing zero.
RECURSIVE Normal(_, _)
Normal(m, e) ==
  IF m = 0 THEN Float(0, 0)
  ELSE IF m % 10 = 0 THEN Normal(m \div 10, e + 1)
  ELSE Float(m, e)

\* The first place of byte ch in bs, 0 if there is none.
Find(bs, ch) ==
  IF ch \in Range(bs)
  THEN CHOOSE i \in DOMAIN bs : bs[i] = ch /\ \A j \in 1 .. (i - 1) : bs[j] # ch
  ELSE 0

\* float(number): digits with a point, and an optional exponent.
float(number) ==
  LET u == Unsigned(number)
      ie == Find(u, "e")
      mant == IF ie = 0 THEN u ELSE SubSeq(u, 1, ie - 1)
      expo == IF ie = 0 THEN <<"0">> ELSE SubSeq(u, ie + 1, Len(u))
      ip == Find(mant, ".")
      whole == IF ip = 0 THEN mant ELSE SubSeq(mant, 1, ip - 1)
      frac == IF ip = 0 THEN <<>> ELSE SubSeq(mant, ip + 1, Len(mant))
  IN  IF IsDigits(whole \o frac) /\ IsDigits(Unsigned(expo))
      THEN Parsed(Normal(Sign(number) * Number(whole \o frac),
                         Sign(expo) * Number(Unsigned(expo)) - Len(frac)))
      ELSE ValueError

\* line.rstrip('\r\n'): every trailing CR and LF is stripped.
RECURSIVE rstrip(_)
rstrip(line) ==
  IF line # <<>> /\ line[Len(line)] \in {"\r", "\n"}
  THEN rstrip(SubSeq(line, 1, Len(line) - 1))
  ELSE line

\* What a read of the socket file comes to: st is "ok" (bs are the bytes
\* read, rest the stream after them) or "block" (the bytes are not there
\* yet and the writer has not closed).
\* socket_file.readline(): up to and with the first LF; at the end of the
\* stream, what is left.
readline(buf, eof) ==
  LET i == Find(buf, "\n")
  IN  IF i > 0
      THEN [st |-> "ok", bs |-> SubSeq(buf, 1, i),
            rest |-> SubSeq(buf, i + 1, Len(buf))]
      ELSE IF eof THEN [st |-> "ok", bs |-> buf, rest |-> <<>>]
      ELSE [st |-> "block", bs |-> <<>>, rest |-> buf]

\* socket_file.read(size): size bytes; at the end of the stream, the fewer
\* that are left.
read(buf, eof, size) ==
  IF Len(buf) >= size
  THEN [st |-> "ok", bs |-> SubSeq(buf, 1, size),
        rest |-> SubSeq(buf, size + 1, Len(buf))]
  ELSE IF eof THEN [st |-> "ok", bs |-> buf, rest |-> <<>>]
  ELSE [st |-> "block", bs |-> <<>>, rest |-> buf]

\* What decoding comes to: st is "ok" (val is the value decoded, rest the
\* stream after it), "block", "Disconnect" or "ValueError".
Decoded(val, rest) == [st |-> "ok", val |-> val, rest |-> rest]
Failed(st, rest) == [st |-> st, val |-> None, rest |-> rest]

handle_simple_string(buf, eof) ==
  LET l == readline(buf, eof)
  IN  IF l.st = "block" THEN Failed("block", buf)
      ELSE Decoded(Str(Join(rstrip(l.bs))), l.rest)

handle_error(buf, eof) ==
  LET l == readline(buf, eof)
  IN  IF l.st = "block" THEN Failed("block", buf)
      ELSE Decoded(Error(Join(rstrip(l.bs))), l.rest)

handle_integer(buf, eof) ==
  LET l == readline(buf, eof)
      number == rstrip(l.bs)
      p == IF "." \in Range(number) THEN float(number) ELSE int(number)
  IN  IF l.st = "block" THEN Failed("block", buf)
      ELSE IF p.ok THEN Decoded(p.v, l.rest)
      ELSE Failed("ValueError", l.rest)

\* bs[:-2]
DropLast2(bs) == SubSeq(bs, 1, Len(bs) - 2)

\* The payload is what read(length + 2) returns without its last two
\* bytes: nothing checks that length + 2 bytes were read, nor that the last
\* two are CR LF.  (read of a negative size reads to the end of the stream.)
handle_string(buf, eof) ==
  LET l == readline(buf, eof)
      p == int(rstrip(l.bs))
      length == p.v.n
      r == IF length + 2 >= 0 THEN read(l.rest, eof, length + 2)
           ELSE IF eof THEN [st |-> "ok", bs |-> l.rest, rest |-> <<>>]
           ELSE [st |-> "block", bs |-> <<>>, rest |-> l.rest]
  IN  IF l.st = "block" THEN Failed("block", buf)
      ELSE IF ~p.ok THEN Failed("ValueError", l.rest)
      ELSE IF length = -1 THEN Decoded(None, l.rest)
      ELSE IF r.st = "block" THEN Failed("block", buf)
      ELSE Decoded(Str(Join(DropLast2(r.bs))), r.rest)

TypeBytes == {"+", "-", ":", "$", "*"}

RECURSIVE handle_request(_, _)
RECURSIVE ArrayLoop(_, _, _, _)

\* [self.handle_request(socket_file) for _ in range(num_elements)]
ArrayLoop(buf, eof, num_elements, accum) ==
  IF num_elements <= 0 THEN Decoded(List(accum), buf)
  ELSE LET r == handle_request(buf, eof)
       IN  IF r.st # "ok" THEN r
           ELSE ArrayLoop(r.rest, eof, num_elements - 1, Append(accum, r.val))

handle_array(buf, eof) ==
  LET l == readline(buf, eof)
      p == int(rstrip(l.bs))
      r == ArrayLoop(l.rest, eof, p.v.n, <<>>)
  IN  IF l.st = "block" THEN Failed("block", buf)
      ELSE IF ~p.ok THEN Failed("ValueError", l.rest)
      ELSE IF r.st = "block" THEN Failed("block", buf)
      ELSE r

\* No first byte at the end of the stream: Disconnect; a first byte that is
\* not a key of self.handlers: KeyError, raised as ValueError.
handle_request(buf, eof) ==
  IF buf = <<>>
  THEN IF eof THEN Failed("Disconnect", buf) ELSE Failed("block", buf)
  ELSE LET first_byte == Head(buf)
           r == CASE first_byte = "+" -> handle_simple_string(Tail(buf), eof)
                  [] first_byte = "-" -> handle_error(Tail(buf), eof)
                  [] first_byte = ":" -> handle_integer(Tail(buf), eof)
                  [] first_byte = "$" -> handle_string(Tail(buf), eof)
                  [] OTHER -> handle_array(Tail(buf), eof)
       IN  IF first_byte \notin TypeBytes THEN Failed("ValueError", Tail(buf))
           ELSE IF r.st = "block" THEN Failed("block", buf)
           ELSE r

RECURSIVE _write(_)
RECURSIVE WriteItems(_)

\* for item in data: self._write(buf, item)
WriteItems(items) ==
  IF items = <<>> THEN <<>>
  ELSE _write(Head(items)) \o WriteItems(Tail(items))

\* self._write(buf, data): the bytes written for the value data.
_write(data) ==
  CASE data.tag = "str" ->
         <<"$">> \o IntStr(Len(Bytes(data.s))) \o CRLF \o Bytes(data.s) \o CRLF
    [] data.tag = "int" -> <<":">> \o IntStr(data.n) \o CRLF
    [] data.tag = "float" ->
         <<":">> \o FloatStr(data.n, data.a[1].n) \o CRLF
    [] data.tag = "Error" -> <<"-">> \o Bytes(data.s) \o CRLF
    [] data.tag = "list" ->
         <<"*">> \o IntStr(Len(data.a)) \o CRLF \o WriteItems(data.a)
    [] OTHER -> <<"$", "-", "1">> \o CRLF

(***************************************************************************)
(* Exceptions and results.  An engine operation applied to the engines E   *)
(* (a record of _queues, _kv and _schedule) yields a record: `exc` names   *)
(* the exception raised ("" for a normal return), `ret` the value          *)
(* returned, E the engines afterwards.                                     *)
(***************************************************************************)
Return(E, value) ==
  [exc |-> "", msg |-> "", message |-> "", ret |-> value, E |-> E]

\* class CommandError(Exception): __init__ stores msg in self.msg and calls
\* Exception.__init__ with no argument, so that the Python 2 attribute
\* `message` is the empty string.
CommandError(E, msg) ==
  [exc |-> "CommandError", msg |-> msg, message |-> "", ret |-> None, E |-> E]

\* Any other exception raised while dispatching (TypeError, IndexError...).
Raise(E, name) ==
  [exc |-> name, msg |-> "", message |-> "", ret |-> None, E |-> E]

\* The engines after construction: QueueServer.__init__.
EmptyEngines == [queues |-> <<>>, kv |-> <<>>, schedule |-> <<>>]

(***************************************************************************)
(* Queue engine: self._queues = defaultdict(deque).                        *)
(***************************************************************************)
\* self._queues[queue]: a missing key is created with an empty deque.
Vivify(Q, queue) == IF queue \in DOMAIN Q THEN Q ELSE Q @@ (queue :> <<>>)

\* An append that is not atomic: the value is written over the tail that
\* another handler has just appended.
queue_append_lost(E, queue, value) ==
  IF ~Hashable(queue) THEN Raise(E, "TypeError")
  ELSE LET Q == Vivify(E.queues, queue)
           n == Len(Q[queue])
       IN  Return([E EXCEPT !.queues =
                      [Q EXCEPT ![queue] =
                         IF n = 0 THEN <<value>>
                         ELSE [@ EXCEPT ![n] = value]]],
                  Integer(1))

queue_append(E, queue, value) ==
  IF ~Hashable(queue) THEN Raise(E, "TypeError")
  ELSE LET Q == Vivify(E.queues, queue)
       IN  Return([E EXCEPT !.queues = [Q EXCEPT ![queue] = Append(@, value)]],
                  Integer(1))

\* A pop that returns the head and leaves it in the queue.
queue_pop_peek(E, queue) ==
  IF ~Hashable(queue) THEN Raise(E, "TypeError")
  ELSE LET Q == Vivify(E.queues, queue)
       IN  IF Q[queue] = <<>>
           THEN Return([E EXCEPT !.queues = Q], None)
           ELSE Return([E EXCEPT !.queues = Q], Head(Q[queue]))

queue_pop(E, queue) ==
  IF ~Hashable(queue) THEN Raise(E, "TypeError")
  ELSE LET Q == Vivify(E.queues, queue)
       IN  IF Q[queue] = <<>>
           THEN Return([E EXCEPT !.queues = Q], None)
           ELSE Return([E EXCEPT !.queues = [Q EXCEPT ![queue] = Tail(@)]],
                       Head(Q[queue]))

\* A remove that takes out the last occurrence.
RemoveLast(s, value) ==
  LET i == CHOOSE i \in DOMAIN s :
             s[i] = value /\ \A j \in (i + 1) .. Len(s) : s[j] # value
  IN  SubSeq(s, 1, i - 1) \o SubSeq(s, i + 1, Len(s))

\* deque.remove(value): removes the first occurrence, ValueError if none.
RemoveFirst(s, value) ==
  LET i == CHOOSE i \in DOMAIN s :
             s[i] = value /\ \A j \in 1 .. (i - 1) : s[j] # value
  IN  SubSeq(s, 1, i - 1) \o SubSeq(s, i + 1, Len(s))

queue_remove(E, queue, value) ==
  IF ~Hashable(queue) THEN Raise(E, "TypeError")
  ELSE LET Q == Vivify(E.queues, queue)
       IN  IF value \notin Range(Q[queue])
           THEN Return([E EXCEPT !.queues = Q], Integer(0))
           ELSE Return([E EXCEPT !.queues =
                           [Q EXCEPT ![queue] = RemoveFirst(@, value)]],
                       Integer(1))

queue_length(E, queue) ==
  IF ~Hashable(queue) THEN Raise(E, "TypeError")
  ELSE LET Q == Vivify(E.queues, queue)
       IN  Return([E EXCEPT !.queues = Q], Integer(Len(Q[queue])))

\* A flush that clears every queue.
queue_flush_every(E, queue) ==
  IF ~Hashable(queue) THEN Raise(E, "TypeError")
  ELSE LET Q == Vivify(E.queues, queue)
       IN  Return([E EXCEPT !.queues = [x \in DOMAIN Q |-> <<>>]],
                  Integer(Len(Q[queue])))

queue_flush(E, queue) ==
  IF ~Hashable(queue) THEN Raise(E, "TypeError")
  ELSE LET Q == Vivify(E.queues, queue)
       IN  Return([E EXCEPT !.queues = [Q EXCEPT ![queue] = <<>>]],
                  Integer(Len(Q[queue])))

(***************************************************************************)
(* Key/value engine: self._kv = {}.                                        *)
(***************************************************************************)
\* self._kv[key] = value
SetItem(K, key, value) ==
  [k \in DOMAIN K \cup {key} |-> IF k = key THEN value ELSE K[k]]

\* del self._kv[key]
DelItem(K, key) == [k \in DOMAIN K \ {key} |-> K[k]]

kv_set(E, key, value) ==
  IF ~Hashable(key) THEN Raise(E, "TypeError")
  ELSE Return([E EXCEPT !.kv = SetItem(@, key, value)], Integer(1))

\* A SETNX that stores the value whether the key is there or not.
kv_setnx_overwrite(E, key, value) == kv_set(E, key, value)

kv_setnx(E, key, value) ==
  IF ~Hashable(key) THEN Raise(E, "TypeError")
  ELSE IF key \in DOMAIN E.kv THEN Return(E, Integer(0))
  ELSE Return([E EXCEPT !.kv = SetItem(@, key, value)], Integer(1))

kv_get(E, key) ==
  IF ~Hashable(key) THEN Raise(E, "TypeError")
  ELSE IF key \in DOMAIN E.kv THEN Return(E, E.kv[key])
  ELSE Return(E, None)

kv_pop(E, key) ==
  IF ~Hashable(key) THEN Raise(E, "TypeError")
  ELSE IF key \in DOMAIN E.kv
       THEN Return([E EXCEPT !.kv = DelItem(@, key)], E.kv[key])
  ELSE Return(E, None)

kv_delete(E, key) ==
  IF ~Hashable(key) THEN Raise(E, "TypeError")
  ELSE IF key \in DOMAIN E.kv
       THEN Return([E EXCEPT !.kv = DelItem(@, key)], Integer(1))
  ELSE Return(E, Integer(0))

kv_exists(E, key) ==
  IF ~Hashable(key) THEN Raise(E, "TypeError")
  ELSE Return(E, IF key \in DOMAIN E.kv THEN Integer(1) ELSE Integer(0))

kv_length(E) == Return(E, Integer(Cardinality(DOMAIN E.kv)))

kv_flush(E) == Return([E EXCEPT !.kv = <<>>], Integer(Cardinality(DOMAIN E.kv)))

(***************************************************************************)
(* Schedule engine: self._schedule, a heapq of (datetime, data) tuples.    *)
(* A datetime is the number of milliseconds since 2024-01-01 00:00:00.     *)
(***************************************************************************)
\* '.' in timestamp, on the timestamps the model sends.
HasDot(x) ==
  x \in {"2024-01-01 00:00:03.0", "2024-01-01 00:00:03.5", "3.5"}

\* datetime.datetime.strptime(timestamp, fmt): the datetime, or -1 for the
\* ValueError of a string that does not match fmt.
strptime(x, fmt) ==
  IF fmt = "%Y-%m-%d %H:%M:%S"
  THEN CASE x = "2024-01-01 00:00:00" -> 0
         [] x = "2024-01-01 00:00:03" -> 3000
         [] x = "2024-01-01 00:00:05" -> 5000
         [] OTHER -> -1
  ELSE CASE x = "2024-01-01 00:00:03.0" -> 3000
         [] x = "2024-01-01 00:00:03.5" -> 3500
         [] OTHER -> -1

\* A decoder that takes a string it cannot parse for the earliest datetime.
_decode_timestamp_lenient(timestamp) ==
  IF timestamp.tag # "str" THEN [exc |-> "TypeError", dt |-> -1]
  ELSE [exc |-> "", dt |-> 0]

\* _decode_timestamp: exc is "" and dt the datetime, or exc names the
\* exception raised.  A timestamp that is not a str makes `'.' in timestamp`
\* or strptime raise TypeError.
_decode_timestamp(timestamp) ==
  IF timestamp.tag # "str" THEN [exc |-> "TypeError", dt |-> -1]
  ELSE LET fmt == IF HasDot(timestamp.s)
                  THEN "%Y-%m-%d %H:%M:%S.%f"
                  ELSE "%Y-%m-%d %H:%M:%S"
           dt == strptime(timestamp.s, fmt)
       IN  IF dt = -1 THEN [exc |-> "CommandError", dt |-> -1]
           ELSE [exc |-> "", dt |-> dt]

\* Python 2 orders values of different types: None first, then numbers,
\* then the others by type name ('Error' < 'list' < 'str').
TypeRank(v) ==
  CASE v.tag = "none" -> 0
    [] v.tag = "int" -> 1
    [] v.tag = "Error" -> 2
    [] v.tag = "list" -> 3
    [] OTHER -> 4

\* The order of the str payloads the model sends.
StrRank(x) ==
  CASE x = "a" -> 1
    [] x = "b" -> 2
    [] x = "c" -> 3
    [] OTHER -> 0

\* x < y on the payloads the model puts in the schedule (None, int, str).
PyLess(x, y) ==
  IF TypeRank(x) # TypeRank(y) THEN TypeRank(x) < TypeRank(y)
  ELSE IF x.tag = "int" THEN x.n < y.n
  ELSE StrRank(x.s) < StrRank(y.s)

\* (dt, data) < (dt2, data2): tuples compare on the first differing item.
EntryLess(x, y) ==
  IF x.dt # y.dt THEN x.dt < y.dt ELSE PyLess(x.data, y.data)

\* Positions are those of the Python list (from 0); heap[pos + 1] is the
\* element at position pos.
RECURSIVE SiftDownLoop(_, _, _, _)
SiftDownLoop(heap, startpos, pos, newitem) ==
  IF pos > startpos
  THEN LET parentpos == (pos - 1) \div 2
           parent == heap[parentpos + 1]
       IN  IF EntryLess(newitem, parent)
           THEN SiftDownLoop([heap EXCEPT ![pos + 1] = parent],
                             startpos, parentpos, newitem)
           ELSE [heap EXCEPT ![pos + 1] = newitem]
  ELSE [heap EXCEPT ![pos + 1] = newitem]

\* heapq._siftdown(heap, startpos, pos)
_siftdown(heap, startpos, pos) ==
  SiftDownLoop(heap, startpos, pos, heap[pos + 1])

RECURSIVE SiftUpLoop(_, _, _, _)
SiftUpLoop(heap, startpos, pos, newitem) ==
  LET endpos == Len(heap)
      childpos == 2 * pos + 1
      rightpos == childpos + 1
  IN  IF childpos < endpos
      THEN LET child == IF rightpos < endpos
                           /\ ~EntryLess(heap[childpos + 1], heap[rightpos + 1])
                        THEN rightpos
                        ELSE childpos
           IN  SiftUpLoop([heap EXCEPT ![pos + 1] = heap[child + 1]],
                          startpos, child, newitem)
      ELSE _siftdown([heap EXCEPT ![pos + 1] = newitem], startpos, pos)

\* A heappop that does not restore the heap: the last element stays at the
\* root.
_siftup_none(heap, pos) == heap

\* heapq._siftup(heap, pos)
_siftup(heap, pos) == SiftUpLoop(heap, pos, pos, heap[pos + 1])

\* heapq.heappush(heap, item): the heap afterwards.
heappush(heap, item) == _siftdown(Append(heap, item), 0, Len(heap))

\* heapq.heappop(heap), on a heap that is not empty: the item returned and
\* the heap afterwards.
heappop(heap) ==
  LET lastelt == heap[Len(heap)]
      rest == SubSeq(heap, 1, Len(heap) - 1)
  IN  IF rest # <<>>
      THEN <<heap[1], _siftup([rest EXCEPT ![1] = lastelt], 0)>>
      ELSE <<lastelt, rest>>

\* An ADD that pushes the entry before it decodes the timestamp.
schedule_add_push_first(E, timestamp, data) ==
  LET d == _decode_timestamp(timestamp)
      pushed == [E EXCEPT !.schedule = heappush(@, [dt |-> 0, data |-> data])]
  IN  IF d.exc = "CommandError"
      THEN CommandError(pushed, "Timestamp must be formatted Y-m-d H:M:S")
      ELSE IF d.exc # "" THEN Raise(pushed, d.exc)
      ELSE Return([E EXCEPT !.schedule =
                      heappush(@, [dt |-> d.dt, data |-> data])],
                  Integer(1))

schedule_add(E, timestamp, data) ==
  LET d == _decode_timestamp(timestamp)
  IN  IF d.exc = "CommandError"
      THEN CommandError(E, "Timestamp must be formatted Y-m-d H:M:S")
      ELSE IF d.exc # "" THEN Raise(E, d.exc)
      ELSE Return([E EXCEPT !.schedule =
                      heappush(@, [dt |-> d.dt, data |-> data])],
                  Integer(1))

\* A loop that stops at an entry due exactly at the cutoff (< for <=).
RECURSIVE ReadLoopStrict(_, _, _)
ReadLoopStrict(heap, dt, accum) ==
  IF heap # <<>> /\ heap[1].dt < dt
  THEN LET p == heappop(heap)
       IN  ReadLoopStrict(p[2], dt, Append(accum, p[1].data))
  ELSE <<accum, heap>>

\* The while loop of schedule_read: <<accum, heap>> when it ends.
RECURSIVE ReadLoop(_, _, _)
ReadLoop(heap, dt, accum) ==
  IF heap # <<>> /\ heap[1].dt <= dt
  THEN LET p == heappop(heap)
       IN  ReadLoop(p[2], dt, Append(accum, p[1].data))
  ELSE <<accum, heap>>

\* A READ that returns the entries due and leaves them in the schedule.
schedule_read_keep(E, timestamp) ==
  LET d == _decode_timestamp(timestamp)
  IN  IF d.exc = "CommandError"
      THEN CommandError(E, "Timestamp must be formatted Y-m-d H:M:S")
      ELSE IF d.exc # "" THEN Raise(E, d.exc)
      ELSE Return(E, List(ReadLoop(E.schedule, d.dt, <<>>)[1]))

schedule_read(E, timestamp) ==
  LET d == _decode_timestamp(timestamp)
  IN  IF d.exc = "CommandError"
      THEN CommandError(E, "Timestamp must be formatted Y-m-d H:M:S")
      ELSE IF d.exc # "" THEN Raise(E, d.exc)
      ELSE LET r == ReadLoop(E.schedule, d.dt, <<>>)
           IN  Return([E EXCEPT !.schedule = r[2]], List(r[1]))

schedule_length(E) == Return(E, Integer(Len(E.schedule)))

schedule_flush(E) ==
  Return([E EXCEPT !.schedule = <<>>], Integer(Len(E.schedule)))

\* flush_all: a new defaultdict, then kv_flush and schedule_flush.
flush_all(E) ==
  Return(schedule_flush(kv_flush([E EXCEPT !.queues = <<>>]).E).E, Integer(1))

\* shutdown: raise Shutdown('shutting down')
shutdown(E) == Raise(E, "Shutdown")

(***************************************************************************)
(* The command dispatcher.                                                 *)
(***************************************************************************)
\* The keys of get_commands().
Commands ==
  {"ENQUEUE", "DEQUEUE", "REMOVE", "FLUSH", "LENGTH",
   "SET", "SETNX", "GET", "POP", "DELETE", "EXISTS", "FLUSH_KV", "LENGTH_KV",
   "ADD", "READ", "FLUSH_SCHEDULE", "LENGTH_SCHEDULE",
   "FLUSHALL", "SHUTDOWN"}

\* self._commands[command](*args): a call with the wrong number of
\* arguments raises TypeError.  READ's timestamp defaults to None.
Call(command, E, args) ==
  LET n == Len(args)
      Bad == Raise(E, "TypeError")
  IN  CASE command = "ENQUEUE" ->
             IF n = 2 THEN queue_append(E, args[1], args[2]) ELSE Bad
        [] command = "DEQUEUE" ->
             IF n = 1 THEN queue_pop(E, args[1]) ELSE Bad
        [] command = "REMOVE" ->
             IF n = 2 THEN queue_remove(E, args[1], args[2]) ELSE Bad
        [] command = "FLUSH" ->
             IF n = 1 THEN queue_flush(E, args[1]) ELSE Bad
        [] command = "LENGTH" ->
             IF n = 1 THEN queue_length(E, args[1]) ELSE Bad
        [] command = "SET" ->
             IF n = 2 THEN kv_set(E, args[1], args[2]) ELSE Bad
        [] command = "SETNX" ->
             IF n = 2 THEN kv_setnx(E, args[1], args[2]) ELSE Bad
        [] command = "GET" ->
             IF n = 1 THEN kv_get(E, args[1]) ELSE Bad
        [] command = "POP" ->
             IF n = 1 THEN kv_pop(E, args[1]) ELSE Bad
        [] command = "DELETE" ->
             IF n = 1 THEN kv_delete(E, args[1]) ELSE Bad
        [] command = "EXISTS" ->
             IF n = 1 THEN kv_exists(E, args[1]) ELSE Bad
        [] command = "FLUSH_KV" -> IF n = 0 THEN kv_flush(E) ELSE Bad
        [] command = "LENGTH_KV" -> IF n = 0 THEN kv_length(E) ELSE Bad
        [] command = "ADD" ->
             IF n = 2 THEN schedule_add(E, args[1], args[2]) ELSE Bad
        [] command = "READ" ->
             IF n = 0 THEN schedule_read(E, None)
             ELSE IF n = 1 THEN schedule_read(E, args[1]) ELSE Bad
        [] command = "FLUSH_SCHEDULE" ->
             IF n = 0 THEN schedule_flush(E) ELSE Bad
        [] command = "LENGTH_SCHEDULE" ->
             IF n = 0 THEN schedule_length(E) ELSE Bad
        [] command = "FLUSHALL" -> IF n = 0 THEN flush_all(E) ELSE Bad
        [] OTHER -> IF n = 0 THEN shutdown(E) ELSE Bad

\* respond(data): data is the decoded request.
respond(E, data) ==
  IF data.tag # "list" /\ data.tag # "str"
  THEN CommandError(E, "Unrecognized request type.")
  ELSE LET d == IF data.tag = "list" THEN data.a ELSE split(data.s)
       IN  IF d = <<>> THEN Raise(E, "IndexError")
           ELSE IF d[1].tag # "str"
           THEN CommandError(E, "First parameter must be command name.")
           ELSE LET command == upper(d[1].s)
                IN  IF command \notin Commands
                    THEN CommandError(E, "Unrecognized command: " \o command)
                    ELSE Call(command, E, Tail(d))

(***************************************************************************)
(* The server: its engines, its listener and its connection handlers.      *)
(***************************************************************************)
VARIABLES
  _queues,    \* self._queues: queue name -> sequence of values, head first
  _kv,        \* self._kv: key -> value
  _schedule,  \* self._schedule: the heap, as the Python list holds it
  server,     \* "serving", "terminating" (KeyboardInterrupt raised) or "stopped"
  backlog,    \* connections made and not yet accepted, oldest first
  pc,         \* the place of each connection, see below
  data,       \* data[c]: the request connection c's handler decoded last
  resp,       \* resp[c]: the reply its handler is about to write
  nread,      \* nread[c]: how many requests its handler has decoded
  out,        \* out[c]: the replies written to c, each with the request
              \* it answers and the number of that request
  hist,       \* the requests dispatched, in dispatch order, each with the
              \* engines as it found them and its reply
  logging,    \* which of out and hist the run records
  sock        \* sock[c]: the bytes written to connection c that its handler
              \* has not read (buf), whether the peer has closed its side
              \* (eof) and how many writes the peer has made (sent)

vars == <<_queues, _kv, _schedule, server, backlog, pc, data, resp, nread,
          out, hist, logging, sock>>

\* pc[c] is "New" (the client has not connected), "Pending" (connected,
\* waiting for a free slot of the pool), "Reading" (handle_request blocks
\* on the socket), "Dispatching" (a request is decoded, respond is about to
\* run), "Writing" (the reply is about to be written), "Acking" (SHUTDOWN
\* was dispatched, the acknowledgment is about to be written), "Closed"
\* (its handler ended) or "Killed" (the process ended under it).
Handled == {"Reading", "Dispatching", "Writing", "Acking"}

\* The connections a handler of the pool is serving.
Active == {c \in Conns : pc[c] \in Handled}

Engines == [queues |-> _queues, kv |-> _kv, schedule |-> _schedule]

RECURSIVE Sum(_, _)
Sum(f, S) ==
  IF S = {} THEN 0
  ELSE LET x == CHOOSE x \in S : TRUE IN f[x] + Sum(f, S \ {x})

\* Requests decoded so far, over all connections.
TotalRead == Sum(nread, Conns)

\* Writes made by the peers so far, over all connections.
TotalSent == Sum([c \in Conns |-> sock[c].sent], Conns)

InitWith(log) ==
  /\ logging = log
  /\ _queues = EmptyEngines.queues
  /\ _kv = EmptyEngines.kv
  /\ _schedule = EmptyEngines.schedule
  /\ server = "serving"
  /\ backlog = <<>>
  /\ pc = [c \in Conns |-> "New"]
  /\ data = [c \in Conns |-> None]
  /\ resp = [c \in Conns |-> None]
  /\ nread = [c \in Conns |-> 0]
  /\ out = [c \in Conns |-> <<>>]
  /\ hist = <<>>
  /\ sock = [c \in Conns |-> [buf |-> <<>>, eof |-> FALSE, sent |-> 0]]

\* Client.connect: the connection waits in the listener's backlog.
Connect(c) ==
  /\ server # "stopped"
  /\ pc[c] = "New"
  /\ pc' = [pc EXCEPT ![c] = "Pending"]
  /\ backlog' = Append(backlog, c)
  /\ UNCHANGED <<_queues, _kv, _schedule, server, data, resp, nread, out, hist, logging, sock>>

\* A pool that never fills.
PoolUnbounded == TRUE

\* Whether the pool, Pool(max_clients), has a free slot.
PoolFree == Cardinality(Active) < max_clients

\* A server that turns away the oldest pending connection when the pool
\* is full.
AcceptOrReject ==
  /\ server = "serving"
  /\ backlog # <<>>
  /\ pc' = [pc EXCEPT ![Head(backlog)] = IF PoolFree THEN "Reading" ELSE "Closed"]
  /\ backlog' = Tail(backlog)
  /\ UNCHANGED <<_queues, _kv, _schedule, server, data, resp, nread, out, hist, logging, sock>>

\* StreamServer(..., spawn=self._pool): the oldest pending connection is
\* accepted and connection_handler spawned for it once the pool has a slot.
Accept ==
  /\ server = "serving"
  /\ backlog # <<>>
  /\ PoolFree
  /\ pc' = [pc EXCEPT ![Head(backlog)] = "Reading"]
  /\ backlog' = Tail(backlog)
  /\ UNCHANGED <<_queues, _kv, _schedule, server, data, resp, nread, out, hist, logging, sock>>

\* A handler that reads the next request before it has written the reply.
ReadAhead(c, d) ==
  /\ pc[c] \in {"Reading", "Writing"}
  /\ pc' = [pc EXCEPT ![c] = "Dispatching"]
  /\ data' = [data EXCEPT ![c] = d]
  /\ nread' = [nread EXCEPT ![c] = @ + 1]
  /\ UNCHANGED <<_queues, _kv, _schedule, server, backlog, resp, out, hist, logging, sock>>

\* data = self._protocol.handle_request(socket_file): request d arrives
\* and is decoded.
Read(c, d) ==
  /\ pc[c] = "Reading"
  /\ pc' = [pc EXCEPT ![c] = "Dispatching"]
  /\ data' = [data EXCEPT ![c] = d]
  /\ nread' = [nread EXCEPT ![c] = @ + 1]
  /\ UNCHANGED <<_queues, _kv, _schedule, server, backlog, resp, out, hist, logging, sock>>

\* ProtocolHandler.write_response(fh, v) by the peer of connection c, as
\* Client.execute does with its arguments: the bytes of v follow those
\* sent before.
write_response(c, v) ==
  /\ pc[c] \in Handled \cup {"Pending"}
  /\ ~sock[c].eof
  /\ sock' = [sock EXCEPT ![c].buf = @ \o _write(v), ![c].sent = @ + 1]
  /\ UNCHANGED <<_queues, _kv, _schedule, server, backlog, pc, data, resp,
                 nread, out, hist, logging>>

\* A peer that writes the bytes bs to its socket itself.
send(c, bs) ==
  /\ pc[c] \in Handled \cup {"Pending"}
  /\ ~sock[c].eof
  /\ sock[c].buf = <<>>
  /\ sock' = [sock EXCEPT ![c].buf = bs, ![c].sent = @ + 1]
  /\ UNCHANGED <<_queues, _kv, _schedule, server, backlog, pc, data, resp,
                 nread, out, hist, logging>>

\* Client.close: the peer closes its side, the stream ends after the
\* bytes already sent.
close(c) ==
  /\ pc[c] \in Handled \cup {"Pending"}
  /\ ~sock[c].eof
  /\ sock' = [sock EXCEPT ![c].eof = TRUE]
  /\ UNCHANGED <<_queues, _kv, _schedule, server, backlog, pc, data, resp,
                 nread, out, hist, logging>>

\* data = self._protocol.handle_request(socket_file), on the bytes of the
\* stream: the handler waits while the bytes it needs are not there; a
\* Disconnect breaks the loop, any other exception ends the handler.
Recv(c) ==
  /\ pc[c] = "Reading"
  /\ LET r == handle_request(sock[c].buf, sock[c].eof)
     IN  /\ r.st # "block"
         /\ sock' = [sock EXCEPT ![c].buf = r.rest]
         /\ IF r.st = "ok"
            THEN /\ pc' = [pc EXCEPT ![c] = "Dispatching"]
                 /\ data' = [data EXCEPT ![c] = r.val]
                 /\ nread' = [nread EXCEPT ![c] = @ + 1]
            ELSE /\ pc' = [pc EXCEPT ![c] = "Closed"]
                 /\ UNCHANGED <<data, nread>>
  /\ UNCHANGED <<_queues, _kv, _schedule, server, backlog, resp, out, hist,
                 logging>>

\* handle_request raises Disconnect (the client closed the connection):
\* the loop breaks and the handler ends.
ReadEOF(c) ==
  /\ pc[c] = "Reading"
  /\ pc' = [pc EXCEPT ![c] = "Closed"]
  /\ UNCHANGED <<_queues, _kv, _schedule, server, backlog, data, resp, nread,
                 out, hist, logging, sock>>

\* handle_request raises ValueError('invalid request') on an unknown type
\* byte: only Disconnect is caught, the exception ends the handler.
ReadInvalid(c) ==
  /\ pc[c] = "Reading"
  /\ pc' = [pc EXCEPT ![c] = "Closed"]
  /\ UNCHANGED <<_queues, _kv, _schedule, server, backlog, data, resp, nread,
                 out, hist, logging, sock>>

\* A handler without the catch-all `except Exception`: the exception ends
\* the handler.
OutcomeNoCatchAll(r) ==
  CASE r.exc = "" -> [next |-> "Writing", resp |-> r.ret]
    [] r.exc = "Shutdown" -> [next |-> "Acking", resp |-> Integer(1)]
    [] r.exc = "CommandError" -> [next |-> "Writing", resp |-> Error(r.message)]
    [] OTHER -> [next |-> "Closed", resp |-> None]

\* The except clauses of connection_handler: what follows the outcome r of
\* respond.  Shutdown: the acknowledgment 1 and KeyboardInterrupt;
\* CommandError: Error(command_error.message); any other Exception:
\* Error('Unhandled server error').
Outcome(r) ==
  CASE r.exc = "" -> [next |-> "Writing", resp |-> r.ret]
    [] r.exc = "Shutdown" -> [next |-> "Acking", resp |-> Integer(1)]
    [] r.exc = "CommandError" -> [next |-> "Writing", resp |-> Error(r.message)]
    [] OTHER -> [next |-> "Writing", resp |-> Error("Unhandled server error")]

\* resp = self.respond(data) and the except clauses around it.  respond
\* runs without yielding to another handler.
Dispatch(c) ==
  /\ pc[c] = "Dispatching"
  /\ LET r == respond(Engines, data[c])
         o == Outcome(r)
     IN  /\ _queues' = r.E.queues
         /\ _kv' = r.E.kv
         /\ _schedule' = r.E.schedule
         /\ resp' = [resp EXCEPT ![c] = o.resp]
         /\ pc' = [pc EXCEPT ![c] = o.next]
         /\ hist' = IF "hist" \in logging
                    THEN Append(hist, [conn |-> c, req |-> data[c],
                                       before |-> Engines, resp |-> o.resp])
                    ELSE hist
  /\ UNCHANGED <<server, backlog, data, nread, out, logging, sock>>

\* self._protocol.write_response(socket_file, resp), then back to reading.
\* The locals data and resp are dead from here to the next request; the
\* model resets them.
Write(c) ==
  /\ pc[c] = "Writing"
  /\ out' = IF "out" \in logging
            THEN [out EXCEPT ![c] = Append(@, [k |-> nread[c], req |-> data[c],
                                               val |-> resp[c]])]
            ELSE out
  /\ pc' = [pc EXCEPT ![c] = "Reading"]
  /\ data' = [data EXCEPT ![c] = None]
  /\ resp' = [resp EXCEPT ![c] = None]
  /\ UNCHANGED <<_queues, _kv, _schedule, server, backlog, nread, hist, logging, sock>>

\* except Shutdown: write_response(socket_file, 1); raise KeyboardInterrupt().
\* The handler ends and the process begins to terminate.
Ack(c) ==
  /\ pc[c] = "Acking"
  /\ out' = IF "out" \in logging
            THEN [out EXCEPT ![c] = Append(@, [k |-> nread[c], req |-> data[c],
                                               val |-> resp[c]])]
            ELSE out
  /\ pc' = [pc EXCEPT ![c] = "Closed"]
  /\ server' = "terminating"
  /\ data' = [data EXCEPT ![c] = None]
  /\ resp' = [resp EXCEPT ![c] = None]
  /\ UNCHANGED <<_queues, _kv, _schedule, backlog, nread, hist, logging, sock>>

\* The KeyboardInterrupt ends serve_forever: the listener is closed and the
\* handlers still running are killed.  Nothing in connection_handler keeps
\* the other handlers from running until then.
Kill ==
  /\ server = "terminating"
  /\ server' = "stopped"
  /\ pc' = [c \in Conns |->
              IF pc[c] \in Handled \cup {"Pending"} THEN "Killed" ELSE pc[c]]
  /\ backlog' = <<>>
  /\ data' = [c \in Conns |-> None]
  /\ resp' = [c \in Conns |-> None]
  /\ UNCHANGED <<_queues, _kv, _schedule, nread, out, hist, logging, sock>>

(***************************************************************************)
(* Spec: clients that send well-formed and faulty requests, and SHUTDOWN;  *)
(* the replies written are recorded in out.                                *)
(***************************************************************************)
Init == InitWith({"out"})

ConnReqs ==
  { List(<<Str("SET"), Str("k"), Str("1")>>),
    List(<<Str("foo")>>),
    List(<<Str("GET")>>),
    List(<<Str("SET"), List(<<>>), Str("1")>>),
    List(<<>>),
    List(<<Str("ADD"), Str("tomorrow"), Str("a")>>),
    Integer(5),
    List(<<Str("SHUTDOWN")>>) }

\* The clients that connect in the runs that exercise the commands: as
\* many as the pool has slots.
Peers == 1 .. max_clients

Next ==
  \/ \E c \in Peers : Connect(c)
  \/ Accept
  \/ \E c \in Conns : \E d \in ConnReqs : TotalRead < MaxReqs /\ Read(c, d)
  \/ \E c \in Conns : ReadEOF(c)
  \/ \E c \in Conns : ReadInvalid(c)
  \/ \E c \in Conns : Dispatch(c)
  \/ \E c \in Conns : Write(c)
  \/ \E c \in Conns : Ack(c)
  \/ Kill

Spec == Init /\ [][Next]_vars

(***************************************************************************)
(* Claims checked under Spec.                                              *)
(***************************************************************************)
\* The requests of ConnReqs that respond answers with an exception other
\* than Shutdown, whatever the engines hold.
Faulty ==
  { List(<<Str("foo")>>),
    List(<<Str("GET")>>),
    List(<<Str("SET"), List(<<>>), Str("1")>>),
    List(<<>>),
    List(<<Str("ADD"), Str("tomorrow"), Str("a")>>),
    Integer(5) }

\* C3: on every connection the k-th reply written answers the k-th request
\* read, and a request is read only when every earlier request of the
\* connection has been dispatched and its reply written: while a request is
\* in the handler (decoded, not yet answered) exactly the earlier ones are
\* answered, and otherwise every request read is answered once.  (A handler
\* the process ended under writes nothing more.)
PerConnectionOrder ==
  \A c \in Conns :
    /\ \A i \in DOMAIN out[c] : out[c][i].k = i
    /\ pc[c] \in {"Dispatching", "Writing", "Acking"}
         => Len(out[c]) = nread[c] - 1
    /\ pc[c] \in {"New", "Pending", "Reading", "Closed"}
         => Len(out[c]) = nread[c]
    /\ pc[c] = "Killed" => Len(out[c]) \in {nread[c] - 1, nread[c]}

\* C3 witness: a connection has its second request decoded with exactly the
\* first one answered.
PerConnectionOrderWitness ==
  \E c \in Conns :
    /\ pc[c] = "Dispatching"
    /\ nread[c] = 2
    /\ Len(out[c]) = 1
    /\ out[c][1].k = 1

\* The reply written to connection c that acknowledges a SHUTDOWN.
Acks(c) ==
  {i \in DOMAIN out[c] :
     out[c][i].req = List(<<Str("SHUTDOWN")>>) /\ out[c][i].val = Integer(1)}

\* Connection c's request is dispatched in this step: respond has run.
Dispatched(c) == pc[c] = "Dispatching" /\ pc'[c] \in {"Writing", "Acking"}

\* C4 (the claim as stated; the code violates it): a SHUTDOWN is
\* acknowledged by exactly one reply 1, written to the connection that sent
\* it and before the server begins to terminate, and once the server has
\* begun to terminate no request is dispatched on any connection.
ShutdownProtocol ==
  /\ [](server # "serving" =>
          \E c \in Conns :
            /\ Cardinality(Acks(c)) = 1
            /\ \A o \in Conns \ {c} : Acks(o) = {})
  /\ [][server # "serving" => \A c \in Conns : ~Dispatched(c)]_vars

\* C7 (the claim as stated; the code violates it): the reply to a request
\* whose command name is not in the command table is the Error whose
\* message is "Unrecognized command: " followed by the name as sent.
UnknownCommandReply ==
  \A c \in Conns :
    ( /\ pc[c] = "Writing"
      /\ data[c].tag = "list"
      /\ data[c].a # <<>>
      /\ data[c].a[1].tag = "str"
      /\ upper(data[c].a[1].s) \notin Commands )
    => resp[c] = Error("Unrecognized command: " \o data[c].a[1].s)

\* C8: a handler ends only while reading (end of stream or a request that
\* cannot be decoded) or by the shutdown; a request that makes respond
\* raise a CommandError or any other exception is answered with an Error
\* and its reply is written with the connection back to reading, where a
\* valid SET is answered 1 and stored, whatever faults came before.  (The
\* end of the process ends every handler wherever it is.)
ConnectionSurvival ==
  [][\A c \in Conns :
       /\ (pc[c] # "Closed" /\ pc'[c] = "Closed")
            => pc[c] \in {"Reading", "Acking"}
       /\ (pc[c] = "Dispatching" /\ pc'[c] \notin {"Dispatching", "Killed"}
             /\ data[c] \in Faulty)
            => pc'[c] = "Writing" /\ resp'[c].tag = "Error"
       /\ (pc[c] = "Writing" /\ pc'[c] \notin {"Writing", "Killed"})
            => /\ pc'[c] = "Reading"
               /\ out'[c] = Append(out[c], [k |-> nread[c], req |-> data[c],
                                            val |-> resp[c]])
       /\ (pc[c] = "Dispatching" /\ pc'[c] \notin {"Dispatching", "Killed"}
             /\ data[c] = List(<<Str("SET"), Str("k"), Str("1")>>))
            => /\ pc'[c] = "Writing"
               /\ resp'[c] = Integer(1)
               /\ Str("k") \in DOMAIN _kv' /\ _kv'[Str("k")] = Str("1")
    ]_vars

\* C8 witness: a connection was answered an Error for a request that
\* raised an exception other than CommandError, then 1 for a valid SET.
ConnectionSurvivalWitness ==
  \E c \in Conns :
    /\ Len(out[c]) = 2
    /\ out[c][1].req = List(<<Str("GET")>>)
    /\ out[c][1].val = Error("Unhandled server error")
    /\ out[c][2].req = List(<<Str("SET"), Str("k"), Str("1")>>)
    /\ out[c][2].val = Integer(1)
    /\ pc[c] = "Reading"

(***************************************************************************)
(* SpecQueue: clients that send ENQUEUE and DEQUEUE on the queues "q" and  *)
(* "r"; the requests dispatched are recorded in hist.                      *)
(***************************************************************************)
Enqueue(queue, value) == List(<<Str("ENQUEUE"), queue, value>>)
Dequeue(queue) == List(<<Str("DEQUEUE"), queue>>)

QueueNames == {Str("q"), Str("r")}

QueueReqs ==
  { Enqueue(Str("q"), Str("a")), Enqueue(Str("q"), Str("b")),
    Enqueue(Str("q"), None), Enqueue(Str("r"), Str("a")),
    Dequeue(Str("q")), Dequeue(Str("r")) }

InitQueue == InitWith({"hist"})

NextQueue ==
  \/ \E c \in Peers : Connect(c)
  \/ Accept
  \/ \E c \in Conns : \E d \in QueueReqs :
       TotalRead < MaxQueueReqs /\ Read(c, d)
  \/ \E c \in Conns : ReadEOF(c)
  \/ \E c \in Conns : Dispatch(c)
  \/ \E c \in Conns : Write(c)

SpecQueue == InitQueue /\ [][NextQueue]_vars

\* The values enqueued on a queue, in dispatch order.
Enqueued(queue) ==
  LET es == SelectSeq(hist, LAMBDA e :
                e.req.a # <<>> /\ e.req.a[1] = Str("ENQUEUE")
                  /\ e.req.a[2] = queue)
  IN  [i \in 1 .. Len(es) |-> es[i].req.a[3]]

\* The entries of hist that are a DEQUEUE on a queue.
Dequeues(queue) == SelectSeq(hist, LAMBDA e : e.req = Dequeue(queue))

Replies(es) == [i \in 1 .. Len(es) |-> es[i].resp]

IsPrefix(x, y) == Len(x) <= Len(y) /\ SubSeq(y, 1, Len(x)) = x

\* The content of a queue in engines E (a name never referenced is empty).
QueueOf(E, queue) ==
  IF queue \in DOMAIN E.queues THEN E.queues[queue] ELSE <<>>

\* The engines as the i-th dispatched request left them.
EnginesAfter(i) == IF i < Len(hist) THEN hist[i + 1].before ELSE Engines

\* C1 (the claim as stated; the code violates it): on each queue the
\* replies of the DEQUEUEs that are not Null are a prefix of the values
\* enqueued, in enqueue order, and a DEQUEUE dispatched on an empty queue
\* is answered Null and leaves the queue empty.
QueueFifo ==
  \A queue \in QueueNames :
    /\ IsPrefix(SelectSeq(Replies(Dequeues(queue)), LAMBDA v : v # None),
                Enqueued(queue))
    /\ \A i \in DOMAIN hist :
         (hist[i].req = Dequeue(queue)
            /\ QueueOf(hist[i].before, queue) = <<>>)
         => /\ hist[i].resp = None
            /\ QueueOf(EnginesAfter(i), queue) = <<>>

\* What the code does guarantee of the order: the replies of the DEQUEUEs
\* dispatched on a queue that was not empty are a prefix of the values
\* enqueued, and the queue holds the rest.
QueueFifoServed ==
  \A queue \in QueueNames :
    LET served == SelectSeq(Dequeues(queue), LAMBDA e :
                               QueueOf(e.before, queue) # <<>>)
    IN  Replies(served) \o QueueOf(Engines, queue) = Enqueued(queue)

(***************************************************************************)
(* SpecMarkers: every client sends one ENQUEUE on the queue "q", with a    *)
(* marker of its own, and closes.                                          *)
(***************************************************************************)
Marker(c) == Enqueue(Str("q"), Integer(c))

InitMarkers == InitWith({})

NextMarkers ==
  \/ \E c \in Conns : Connect(c)
  \/ Accept
  \/ \E c \in Conns : nread[c] = 0 /\ Read(c, Marker(c))
  \/ \E c \in Conns : ReadEOF(c)
  \/ \E c \in Conns : Dispatch(c)
  \/ \E c \in Conns : Write(c)

SpecMarkers == InitMarkers /\ [][NextMarkers]_vars

\* The connections whose ENQUEUE has been dispatched.
Appended == {c \in Conns : nread[c] = 1 /\ pc[c] # "Dispatching"}

\* C2: under every interleaving of the handlers the queue holds exactly
\* the markers of the ENQUEUEs dispatched so far, each once; so it ends
\* with NumConns elements, the NumConns markers, when all are dispatched.
MarkersAtomic ==
  /\ Len(QueueOf(Engines, Str("q"))) = Cardinality(Appended)
  /\ Range(QueueOf(Engines, Str("q"))) = {Integer(c) : c \in Appended}
  /\ Appended = Conns => Len(QueueOf(Engines, Str("q"))) = NumConns

\* C2 witness: every client's ENQUEUE is dispatched and answered, and the
\* markers are not in the order of the connections.
MarkersAtomicWitness ==
  /\ Appended = Conns
  /\ \A c \in Conns : pc[c] = "Closed"
  /\ _queues[Str("q")][1] # Integer(1)

(***************************************************************************)
(* SpecSched: clients that send ADD, READ and FLUSH_SCHEDULE.              *)
(***************************************************************************)
Add(timestamp, payload) == List(<<Str("ADD"), Str(timestamp), payload>>)
ReadDue(timestamp) == List(<<Str("READ"), Str(timestamp)>>)

ReadReqs ==
  { ReadDue("2024-01-01 00:00:03"), ReadDue("2024-01-01 00:00:03.5"),
    ReadDue("2024-01-01 00:00:05") }

SchedReqs ==
  { Add("2024-01-01 00:00:00", Str("b")),
    Add("2024-01-01 00:00:03", Str("a")),
    Add("2024-01-01 00:00:03.0", Str("b")),
    Add("2024-01-01 00:00:05", Str("a")),
    List(<<Str("FLUSH_SCHEDULE")>>) } \cup ReadReqs

InitSched == InitWith({})

NextSched ==
  \/ \E c \in Peers : Connect(c)
  \/ Accept
  \/ \E c \in Conns : \E d \in SchedReqs :
       TotalRead < MaxSchedReqs /\ Read(c, d)
  \/ \E c \in Conns : ReadEOF(c)
  \/ \E c \in Conns : Dispatch(c)
  \/ \E c \in Conns : Write(c)

SpecSched == InitSched /\ [][NextSched]_vars

\* How many times x occurs in the sequence q.
Count(q, x) == Cardinality({i \in DOMAIN q : q[i] = x})

SameBag(x, y) ==
  \A e \in Range(x) \cup Range(y) : Count(x, e) = Count(y, e)

\* The elements of q at the positions in I, in the order of q.
RECURSIVE Pick(_, _)
Pick(q, I) ==
  IF I = {} THEN <<>>
  ELSE LET i == CHOOSE i \in I : \A j \in I : i <= j
       IN  <<q[i]>> \o Pick(q, I \ {i})

Payloads(es) == [i \in 1 .. Len(es) |-> es[i].data]

\* The datetime a READ request names: its timestamp in milliseconds.
Cutoff(d) ==
  CASE d = ReadDue("2024-01-01 00:00:03") -> 3000
    [] d = ReadDue("2024-01-01 00:00:03.5") -> 3500
    [] OTHER -> 5000

\* The entries of the schedule due at the cutoff, and the others.
Due(cutoff) == Pick(_schedule, {i \in DOMAIN _schedule : _schedule[i].dt <= cutoff})
NotDue(cutoff) == Pick(_schedule, {i \in DOMAIN _schedule : _schedule[i].dt > cutoff})

\* C5: a READ with a valid cutoff is answered with the payloads of exactly
\* the entries due at the cutoff or before (each as often as it is in the
\* schedule) and leaves exactly the entries due after it: the schedule's
\* length is then their number.
ScheduleCutoff ==
  [][\A c \in Conns :
       (Dispatched(c) /\ data[c] \in ReadReqs)
       => /\ resp'[c].tag = "list"
          /\ SameBag(resp'[c].a, Payloads(Due(Cutoff(data[c]))))
          /\ SameBag(_schedule', NotDue(Cutoff(data[c])))
          /\ Len(_schedule') = Len(NotDue(Cutoff(data[c])))
    ]_vars

\* C5 witness: a READ at 00:00:03 is answered with the two entries due at
\* 00:00:03 (added as 00:00:03 and as 00:00:03.0), and the entry due at
\* 00:00:05 stays.
ScheduleCutoffWitness ==
  \E c \in Conns :
    /\ pc[c] = "Writing"
    /\ data[c] = ReadDue("2024-01-01 00:00:03")
    /\ resp[c] = List(<<Str("a"), Str("b")>>)
    /\ _schedule = <<[dt |-> 5000, data |-> Str("a")]>>

\* C6: the payloads a READ returns are in the order of their due
\* timestamps, earliest first: for every timestamp t the entries due at t
\* fill the places after those of the entries due before t.
ScheduleOrder ==
  [][\A c \in Conns :
       (Dispatched(c) /\ data[c] \in ReadReqs)
       => LET due == Due(Cutoff(data[c]))
              Before(t) == {i \in DOMAIN due : due[i].dt < t}
              At(t) == {i \in DOMAIN due : due[i].dt = t}
          IN  /\ Len(resp'[c].a) = Len(due)
              /\ \A t \in {due[i].dt : i \in DOMAIN due} :
                   SameBag(SubSeq(resp'[c].a, Cardinality(Before(t)) + 1,
                                  Cardinality(Before(t)) + Cardinality(At(t))),
                           Payloads(Pick(due, At(t))))
    ]_vars

\* C6 witness: a READ is answered with entries of three timestamps from a
\* schedule whose list is not in timestamp order.
ScheduleOrderWitness ==
  \E c \in Conns :
    /\ pc[c] = "Dispatching"
    /\ data[c] = ReadDue("2024-01-01 00:00:05")
    /\ Len(_schedule) = 3
    /\ _schedule[1].dt = 0
    /\ _schedule[2].dt = 5000
    /\ _schedule[3].dt = 3000

(***************************************************************************)
(* SpecAdmit: more clients than the pool has slots; each may send          *)
(* LENGTH_KV (as an inline request) or SHUTDOWN, stall, or disconnect.     *)
(* LiveAdmit adds the fairness of the scheduling: gevent's hub runs every  *)
(* handler that can run (respond, the writes, the end of the process) and  *)
(* the listener accepts a pending connection once the pool has a slot.     *)
(* Nothing obliges a client to send a request or to disconnect.            *)
(***************************************************************************)
AdmitReqs == {Str("LENGTH_KV"), List(<<Str("SHUTDOWN")>>)}

InitAdmit == InitWith({})

NextAdmit ==
  \/ \E c \in Conns : Connect(c)
  \/ Accept
  \/ \E c \in Conns : \E d \in AdmitReqs :
       TotalRead < MaxAdmitReqs /\ Read(c, d)
  \/ \E c \in Conns : ReadEOF(c)
  \/ \E c \in Conns : ReadInvalid(c)
  \/ \E c \in Conns : Dispatch(c)
  \/ \E c \in Conns : Write(c)
  \/ \E c \in Conns : Ack(c)
  \/ Kill

SpecAdmit == InitAdmit /\ [][NextAdmit]_vars

LiveAdmit ==
  /\ InitAdmit
  /\ [][NextAdmit]_vars
  /\ WF_vars(Accept)
  /\ WF_vars(Kill)
  /\ \A c \in Conns :
       WF_vars(Dispatch(c)) /\ WF_vars(Write(c)) /\ WF_vars(Ack(c))

\* C9: the connections being handled (accepted, their handler not ended)
\* are never more than max_clients.
AdmissionBound == Cardinality(Active) <= max_clients

\* C9 witness: the pool is full and a connection waits.
AdmissionBoundWitness ==
  /\ Cardinality(Active) = max_clients
  /\ backlog # <<>>

\* Connection c waits for a slot and is next to be accepted.
NextInLine(c) == backlog # <<>> /\ Head(backlog) = c

\* A connection has a request in its handler.
InHandler(c) == pc[c] \in {"Dispatching", "Writing"}

\* C10 (the claim as stated; the code violates it when the server is shut
\* down): a connection that waits is never dropped, it stays pending until
\* it is admitted; whenever the pool has a free slot the connection next in
\* line is eventually admitted, and a request of an admitted connection is
\* eventually answered; a connection is admitted only when the pool has a
\* free slot and none of its requests is read while it waits.
AdmissionBackpressure ==
  /\ [][\A c \in Conns :
          /\ pc[c] = "Pending" => pc'[c] \in {"Pending", "Reading"}
          /\ (pc[c] = "Pending" /\ pc'[c] = "Reading") => PoolFree
          /\ pc'[c] = "Pending" => nread'[c] = 0
       ]_vars
  /\ \A c \in Conns : (NextInLine(c) /\ PoolFree) ~> (pc[c] = "Reading")
  /\ \A c \in Conns : InHandler(c) ~> (pc[c] = "Reading")

\* C10 as amended: the same, as long as the process has not ended or begun
\* to terminate after a SHUTDOWN.
AdmissionBackpressureServing ==
  /\ [][\A c \in Conns :
          /\ pc[c] = "Pending" => pc'[c] \in {"Pending", "Reading", "Killed"}
          /\ (pc[c] = "Pending" /\ pc'[c] = "Killed") => server = "terminating"
          /\ (pc[c] = "Pending" /\ pc'[c] = "Reading") => PoolFree
          /\ pc'[c] = "Pending" => nread'[c] = 0
       ]_vars
  /\ \A c \in Conns :
       (NextInLine(c) /\ PoolFree)
         ~> (pc[c] = "Reading" \/ server # "serving")
  /\ \A c \in Conns :
       InHandler(c) ~> (pc[c] = "Reading" \/ server = "stopped")

\* C10 witness: a connection that waited while the pool was full has been
\* admitted after another one closed, and has had a request answered.
AdmissionBackpressureWitness ==
  \E c \in Conns :
    /\ server = "serving"
    /\ pc[c] = "Reading"
    /\ nread[c] = 1
    /\ Cardinality(Active) = max_clients
    /\ Cardinality({o \in Conns : pc[o] = "Closed"}) = Cardinality(Conns) - max_clients
    /\ \A o \in Conns \ {c} : nread[o] = 0

(***************************************************************************)
(* SpecFrame: peers that write well-formed requests, requests cut short    *)
(* inside their last bulk string, and bytes that begin with an unknown     *)
(* type byte, and that may close their side at any time.  The handlers     *)
(* decode the bytes of the stream.                                         *)
(***************************************************************************)
FrameReqs ==
  { Enqueue(Str("q"), Str("abc")), List(<<Str("LENGTH"), Str("q")>>) }

\* The bytes of request v without its last k bytes.
CutShort(v, k) == SubSeq(_write(v), 1, Len(_write(v)) - k)

\* A request array that ends with a bulk string, cut short after the length
\* line of that string: from none to all but one of its payload bytes and
\* the two bytes CR LF are there.
TruncatedBulk(v) ==
  {CutShort(v, k) : k \in 1 .. (Len(Bytes(v.a[Len(v.a)].s)) + 2)}

FrameCuts == UNION {TruncatedBulk(v) : v \in FrameReqs}

FrameRaw == FrameCuts \cup {<<"!">> \o CRLF, <<"$", "x">> \o CRLF}

InitFrame == InitWith({})

NextFrame ==
  \/ \E c \in Peers : Connect(c)
  \/ Accept
  \/ \E c \in Conns : \E v \in FrameReqs :
       TotalSent < MaxFrameSends /\ write_response(c, v)
  \/ \E c \in Conns : \E bs \in FrameRaw :
       TotalSent < MaxFrameSends /\ send(c, bs)
  \/ \E c \in Conns : close(c)
  \/ \E c \in Conns : Recv(c)
  \/ \E c \in Conns : Dispatch(c)
  \/ \E c \in Conns : Write(c)

SpecFrame == InitFrame /\ [][NextFrame]_vars

\* The stream of connection c begins with a byte that is no type byte.
UnknownTag(c) == sock[c].buf # <<>> /\ Head(sock[c].buf) \notin TypeBytes

\* The stream of connection c has ended inside a bulk string.
Truncated(c) == sock[c].eof /\ sock[c].buf \in FrameCuts

\* The handler of connection c comes out of handle_request in this step.
Decodes(c) == pc[c] = "Reading" /\ pc'[c] # "Reading"

\* C11 (the claim as stated; the code violates it): when the bytes read for
\* a request begin with an unknown type byte, or end before the declared
\* payload bytes and the CR LF of a bulk string are there, decoding fails:
\* the handler ends with no request decoded, so that nothing is dispatched,
\* and the engines are as they were.
MalformedFatal ==
  [][\A c \in Conns :
       (Decodes(c) /\ (UnknownTag(c) \/ Truncated(c)))
       => /\ pc'[c] = "Closed"
          /\ nread'[c] = nread[c]
          /\ Engines' = Engines
    ]_vars

\* What the code does guarantee: an unknown type byte ends the handler with
\* no request decoded.
UnknownTagFatal ==
  [][\A c \in Conns :
       (Decodes(c) /\ UnknownTag(c))
       => pc'[c] = "Closed" /\ nread'[c] = nread[c] /\ Engines' = Engines
    ]_vars

\* The request cut short has been dispatched: its ENQUEUE has put a part of
\* the payload on the queue.
TruncatedDispatched ==
  /\ Str("q") \in DOMAIN _queues
  /\ Str("a") \in Range(_queues[Str("q")])

(***************************************************************************)
(* SpecStamp: clients that send ADD and READ with timestamps that parse    *)
(* and with timestamps that do not.                                        *)
(***************************************************************************)
\* Requests whose timestamp is a str that strptime does not parse.
BadStampAdds ==
  { Add("tomorrow", Str("b")), Add("3.5", Str("b")), Add("", Str("b")) }

BadStampReads == { ReadDue("tomorrow"), ReadDue("3.5"), ReadDue("") }

StampReqs ==
  { Add("2024-01-01 00:00:03", Str("a")), ReadDue("2024-01-01 00:00:05") }
    \cup BadStampAdds \cup BadStampReads

InitStamp == InitWith({})

NextStamp ==
  \/ \E c \in Peers : Connect(c)
  \/ Accept
  \/ \E c \in Conns : \E d \in StampReqs :
       TotalRead < MaxStampReqs /\ Read(c, d)
  \/ \E c \in Conns : ReadEOF(c)
  \/ \E c \in Conns : Dispatch(c)
  \/ \E c \in Conns : Write(c)

SpecStamp == InitStamp /\ [][NextStamp]_vars

\* C12: an ADD or a READ whose timestamp is a text that does not parse
\* makes respond raise the CommandError whose msg is "Timestamp must be
\* formatted Y-m-d H:M:S"; the reply is an Error value, the handler goes on
\* to write it, and the schedule (with the other engines) is as it was: no
\* entry is inserted, none is removed.
MalformedTimestamp ==
  [][\A c \in Conns :
       (Dispatched(c) /\ data[c] \in BadStampAdds \cup BadStampReads)
       => /\ respond(Engines, data[c]).exc = "CommandError"
          /\ respond(Engines, data[c]).msg
               = "Timestamp must be formatted Y-m-d H:M:S"
          /\ pc'[c] = "Writing"
          /\ resp'[c].tag = "Error"
          /\ _schedule' = _schedule
          /\ Engines' = Engines
    ]_vars

\* C12 witness: with an entry due in the schedule, a READ and an ADD with
\* malformed timestamps have been answered with an Error.
MalformedTimestampWitness ==
  \E c, o \in Conns :
    /\ pc[c] = "Writing" /\ data[c] = ReadDue("tomorrow")
    /\ resp[c].tag = "Error"
    /\ pc[o] = "Writing" /\ data[o] = Add("3.5", Str("b"))
    /\ resp[o].tag = "Error"
    /\ _schedule = <<[dt |-> 3000, data |-> Str("a")]>>

(***************************************************************************)
(* SpecKV: clients that send SET, SETNX, GET, DELETE and EXISTS on the key *)
(* "k", and SET on the key "j"; the requests dispatched are recorded in    *)
(* hist.                                                                   *)
(***************************************************************************)
Set(key, value) == List(<<Str("SET"), key, value>>)
SetNx(key, value) == List(<<Str("SETNX"), key, value>>)
Get(key) == List(<<Str("GET"), key>>)
Delete(key) == List(<<Str("DELETE"), key>>)
Exists(key) == List(<<Str("EXISTS"), key>>)

KVReqs ==
  { Set(Str("k"), Str("1")), Set(Str("j"), Str("1")),
    SetNx(Str("k"), Str("2")), Get(Str("k")), Delete(Str("k")),
    Exists(Str("k")) }

InitKV == InitWith({"hist"})

NextKV ==
  \/ \E c \in Peers : Connect(c)
  \/ Accept
  \/ \E c \in Conns : \E d \in KVReqs : TotalRead < MaxKVReqs /\ Read(c, d)
  \/ \E c \in Conns : ReadEOF(c)
  \/ \E c \in Conns : Dispatch(c)
  \/ \E c \in Conns : Write(c)

SpecKV == InitKV /\ [][NextKV]_vars

\* C13: a SETNX on a key that is present is answered 0 and leaves the store
\* as it was, the value of that key and every other key; on an absent key
\* it is answered 1 and the store is as it was but for that key, which has
\* the value.  And of requests dispatched one after the other: after SET k
\* 1 and SETNX k 2, GET k is answered 1; after DELETE k, EXISTS k is
\* answered 0 and a SETNX k 2 after it is answered 1.
ConditionalSet ==
  /\ \A i \in DOMAIN hist :
       hist[i].req = SetNx(Str("k"), Str("2"))
       => LET before == hist[i].before.kv
              after == EnginesAfter(i).kv
          IN  IF Str("k") \in DOMAIN before
              THEN hist[i].resp = Integer(0) /\ after = before
              ELSE /\ hist[i].resp = Integer(1)
                   /\ DOMAIN after = DOMAIN before \cup {Str("k")}
                   /\ after[Str("k")] = Str("2")
                   /\ \A key \in DOMAIN before : after[key] = before[key]
  /\ \A i \in DOMAIN hist :
       ( /\ i + 2 <= Len(hist)
         /\ hist[i].req = Set(Str("k"), Str("1"))
         /\ hist[i + 1].req = SetNx(Str("k"), Str("2"))
         /\ hist[i + 2].req = Get(Str("k")) )
       => hist[i + 1].resp = Integer(0) /\ hist[i + 2].resp = Str("1")
  /\ \A i \in DOMAIN hist :
       ( /\ i + 1 <= Len(hist)
         /\ hist[i].req = Delete(Str("k"))
         /\ hist[i + 1].req = Exists(Str("k")) )
       => /\ hist[i + 1].resp = Integer(0)
          /\ ( i + 2 <= Len(hist) /\ hist[i + 2].req = SetNx(Str("k"), Str("2")) )
             => hist[i + 2].resp = Integer(1)

\* C13 witness: SET k 1, SETNX k 2 and GET k have been dispatched in that
\* order, by two connections.
ConditionalSetWitness ==
  /\ Len(hist) = 3
  /\ hist[1].req = Set(Str("k"), Str("1"))
  /\ hist[2].req = SetNx(Str("k"), Str("2"))
  /\ hist[2].resp = Integer(0)
  /\ hist[3].req = Get(Str("k"))
  /\ hist[3].resp = Str("1")
  /\ hist[2].conn # hist[1].conn

(***************************************************************************)
(* SpecRemove: clients that send ENQUEUE, REMOVE and LENGTH on the queue   *)
(* "q", and ENQUEUE on the queue "r".                                      *)
(***************************************************************************)
Remove(queue, value) == List(<<Str("REMOVE"), queue, value>>)
Length(queue) == List(<<Str("LENGTH"), queue>>)

RemoveReqs ==
  { Enqueue(Str("q"), Str("x")), Enqueue(Str("q"), Str("y")),
    Enqueue(Str("r"), Str("x")),
    Remove(Str("q"), Str("x")), Remove(Str("q"), Str("y")),
    Length(Str("q")) }

InitRemove == InitWith({})

NextRemove ==
  \/ \E c \in Peers : Connect(c)
  \/ Accept
  \/ \E c \in Conns : \E d \in RemoveReqs :
       TotalRead < MaxRemoveReqs /\ Read(c, d)
  \/ \E c \in Conns : ReadEOF(c)
  \/ \E c \in Conns : Dispatch(c)
  \/ \E c \in Conns : Write(c)

SpecRemove == InitRemove /\ [][NextRemove]_vars

\* C14: a REMOVE of v on queue q whose value occurs in q is answered 1 and
\* takes out the occurrence closest to the head and nothing else: the other
\* elements keep their order, and LENGTH of q is one less than it was; a
\* REMOVE whose value does not occur in q is answered 0 and leaves q as it
\* was.  The other queues are as they were.
RemoveFirstOnly ==
  [][\A c \in Conns : \A v \in {Str("x"), Str("y")} :
       (Dispatched(c) /\ data[c] = Remove(Str("q"), v))
       => LET qb == QueueOf(Engines, Str("q"))
              qa == QueueOf(Engines', Str("q"))
          IN  /\ QueueOf(Engines', Str("r")) = QueueOf(Engines, Str("r"))
              /\ IF \E i \in DOMAIN qb : qb[i] = v
                 THEN /\ resp'[c] = Integer(1)
                      /\ \E i \in DOMAIN qb :
                           /\ qb[i] = v
                           /\ \A j \in 1 .. (i - 1) : qb[j] # v
                           /\ qa = [k \in 1 .. (Len(qb) - 1) |->
                                      IF k < i THEN qb[k] ELSE qb[k + 1]]
                      /\ queue_length(Engines', Str("q")).ret.n
                           = queue_length(Engines, Str("q")).ret.n - 1
                 ELSE resp'[c] = Integer(0) /\ qa = qb
    ]_vars

\* C14 witness: REMOVE q x has been answered 1 and the queue, filled by
\* two connections, is y, x.
RemoveFirstOnlyWitness ==
  \E c \in Conns :
    /\ pc[c] = "Writing"
    /\ data[c] = Remove(Str("q"), Str("x"))
    /\ resp[c] = Integer(1)
    /\ \E o \in Conns \ {c} : nread[o] > 0
    /\ QueueOf(Engines, Str("q")) = <<Str("y"), Str("x")>>

(***************************************************************************)
(* SpecCodec: peers that write values of every kind with write_response,   *)
(* one after the other without waiting; the handlers decode them.          *)
(***************************************************************************)
\* 1.5, -0.25, 0.0, 2.0, 1.5e+20; and 1e+16 and 1e-05, whose text has no
\* decimal point.
DottedFloats ==
  { Float(15, -1), Float(-25, -2), Float(0, 0), Float(2, 0), Float(15, 19) }

UndottedFloats == { Float(1, 16), Float(1, -5) }

CodecValues ==
  { Str(""), Str("a"), Str("abc"), Str("a\r"),
    Error("e"), Error(""),
    Integer(0), Integer(-1), Integer(12),
    None,
    List(<<>>), List(<<Str("a"), None>>),
    List(<<Integer(1), List(<<Str("")>>)>>),
    List(<<Float(15, -1), Error("e")>>) }
    \cup DottedFloats \cup UndottedFloats

InitCodec == InitWith({})

NextCodec ==
  \/ \E c \in Peers : Connect(c)
  \/ Accept
  \/ \E c \in Conns : \E v \in CodecValues :
       TotalSent < MaxCodecSends /\ write_response(c, v)
  \/ \E c \in Conns : close(c)
  \/ \E c \in Conns : Recv(c)
  \/ \E c \in Conns : Dispatch(c)
  \/ \E c \in Conns : Write(c)

SpecCodec == InitCodec /\ [][NextCodec]_vars

\* The stream bs begins with the bytes written for the value v.
BeginsWith(bs, v) ==
  Len(bs) >= Len(_write(v)) /\ SubSeq(bs, 1, Len(_write(v))) = _write(v)

\* In this step, decoding a stream that begins with the bytes written for
\* one of the values of V gives that value and leaves the bytes after them.
RoundTrip(V) ==
  \A c \in Conns : \A v \in V :
    (Decodes(c) /\ BeginsWith(sock[c].buf, v))
    => /\ pc'[c] = "Dispatching"
       /\ data'[c] = v
       /\ sock'[c].buf
            = SubSeq(sock[c].buf, Len(_write(v)) + 1, Len(sock[c].buf))

\* C15 (the claim as stated; the code violates it): for every value v, a
\* string, an Error, an integer, a float, a bulk string (the empty one
\* too), Null or an array of these, decoding the bytes written for v gives
\* v and reads exactly those bytes, no more.
CodecRoundTrip == [][RoundTrip(CodecValues)]_vars

\* What the code does guarantee: the same for every value but the floats
\* whose text has no decimal point.
CodecRoundTripDotted == [][RoundTrip(CodecValues \ UndottedFloats)]_vars

\* The bytes written for 1e+16 have been read and the handler has ended
\* with no value decoded.
UndottedFloatRejected ==
  \E c \in Conns :
    /\ sock[c].sent = 1
    /\ sock[c].buf = <<>>
    /\ ~sock[c].eof
    /\ pc[c] = "Closed"
    /\ nread[c] = 0

(***************************************************************************)
(* SpecFlush: clients that fill the queues "q" and "r", the key/value      *)
(* store and the schedule, and send FLUSH, FLUSH_KV, FLUSH_SCHEDULE and    *)
(* FLUSHALL.                                                               *)
(***************************************************************************)
Flush(queue) == List(<<Str("FLUSH"), queue>>)
FlushKV == List(<<Str("FLUSH_KV")>>)
FlushSchedule == List(<<Str("FLUSH_SCHEDULE")>>)
FlushAll == List(<<Str("FLUSHALL")>>)

FlushReqs ==
  { Enqueue(Str("q"), Str("a")), Enqueue(Str("r"), Str("a")),
    Set(Str("k"), Str("1")), Add("2024-01-01 00:00:03", Str("a")),
    Flush(Str("q")), FlushKV, FlushSchedule, FlushAll }

InitFlush == InitWith({})

NextFlush ==
  \/ \E c \in Peers : Connect(c)
  \/ Accept
  \/ \E c \in Conns : \E d \in FlushReqs :
       TotalRead < MaxFlushReqs /\ Read(c, d)
  \/ \E c \in Conns : ReadEOF(c)
  \/ \E c \in Conns : Dispatch(c)
  \/ \E c \in Conns : Write(c)

SpecFlush == InitFlush /\ [][NextFlush]_vars

\* C16: FLUSH of a queue, FLUSH_KV and FLUSH_SCHEDULE are each answered
\* with the number of entries the queue, the store, the schedule held when
\* dispatched and leave it empty, the other queues and the other engines
\* being as they were; FLUSHALL is answered 1, and after it LENGTH of every
\* queue, LENGTH_KV and LENGTH_SCHEDULE are 0.
FlushCommands ==
  [][\A c \in Conns :
       Dispatched(c) =>
         /\ data[c] = Flush(Str("q"))
              => /\ resp'[c] = Integer(Len(QueueOf(Engines, Str("q"))))
                 /\ QueueOf(Engines', Str("q")) = <<>>
                 /\ QueueOf(Engines', Str("r")) = QueueOf(Engines, Str("r"))
                 /\ _kv' = _kv
                 /\ _schedule' = _schedule
         /\ data[c] = FlushKV
              => /\ resp'[c] = Integer(Cardinality(DOMAIN _kv))
                 /\ DOMAIN _kv' = {}
                 /\ _queues' = _queues
                 /\ _schedule' = _schedule
         /\ data[c] = FlushSchedule
              => /\ resp'[c] = Integer(Len(_schedule))
                 /\ Len(_schedule') = 0
                 /\ _queues' = _queues
                 /\ _kv' = _kv
         /\ data[c] = FlushAll
              => /\ resp'[c] = Integer(1)
                 /\ \A queue \in QueueNames :
                      queue_length(Engines', queue).ret = Integer(0)
                 /\ kv_length(Engines').ret = Integer(0)
                 /\ schedule_length(Engines').ret = Integer(0)
    ]_vars

\* C16 witness: FLUSH q has been answered 2 and has emptied "q", with an
\* entry left in "r".
FlushCommandsWitness ==
  \E c \in Conns :
    /\ pc[c] = "Writing"
    /\ data[c] = Flush(Str("q"))
    /\ resp[c] = Integer(2)
    /\ QueueOf(Engines, Str("q")) = <<>>
    /\ QueueOf(Engines, Str("r")) = <<Str("a")>>

(***************************************************************************)
(* SpecErr: clients that fill the engines and send requests that fail: an  *)
(* unknown command, a command name that is no text, timestamps that do not *)
(* parse, a call with too few arguments.                                   *)
(***************************************************************************)
FailingReqs ==
  { List(<<Str("foo"), Str("q")>>),
    List(<<Integer(5), Str("q")>>),
    Add("tomorrow", Str("b")),
    ReadDue("tomorrow"),
    List(<<Str("ENQUEUE"), Str("q")>>) }

ErrReqs ==
  { Enqueue(Str("q"), Str("a")), Set(Str("k"), Str("1")),
    Add("2024-01-01 00:00:03", Str("a")) } \cup FailingReqs

InitErr == InitWith({})

NextErr ==
  \/ \E c \in Peers : Connect(c)
  \/ Accept
  \/ \E c \in Conns : \E d \in ErrReqs : TotalRead < MaxErrReqs /\ Read(c, d)
  \/ \E c \in Conns : ReadEOF(c)
  \/ \E c \in Conns : Dispatch(c)
  \/ \E c \in Conns : Write(c)

SpecErr == InitErr /\ [][NextErr]_vars

\* respond raises a CommandError or another exception (not Shutdown) on the
\* request of connection c: the reply is the Error made by the handler.
Fails(c) == respond(Engines, data[c]).exc \notin {"", "Shutdown"}

\* C17: a request that fails, with a CommandError or with any other
\* exception, is answered with an Error value and leaves the three engines
\* exactly as they were; the step changes nothing of another connection:
\* not its place, nor its request, nor the reply it is about to write, nor
\* the replies written to it.  Every request of FailingReqs fails.
ErrorsNoEffect ==
  [][\A c \in Conns :
       Dispatched(c) =>
         /\ data[c] \in FailingReqs => Fails(c)
         /\ Fails(c)
              => /\ resp'[c].tag = "Error"
                 /\ _queues' = _queues
                 /\ _kv' = _kv
                 /\ _schedule' = _schedule
                 /\ \A o \in Conns \ {c} :
                      /\ pc'[o] = pc[o]
                      /\ data'[o] = data[o]
                      /\ resp'[o] = resp[o]
                      /\ nread'[o] = nread[o]
                      /\ out'[o] = out[o]
    ]_vars

\* C17 witness: an ADD with a malformed timestamp has been answered with an
\* Error while the schedule holds an entry and another connection has a
\* reply to write.
ErrorsNoEffectWitness ==
  \E c \in Conns : \E o \in Conns \ {c} :
    /\ pc[c] = "Writing"
    /\ data[c] = Add("tomorrow", Str("b"))
    /\ resp[c].tag = "Error"
    /\ pc[o] = "Writing"
    /\ data[o] = Enqueue(Str("q"), Str("a"))
    /\ resp[o] = Integer(1)
    /\ _schedule = <<[dt |-> 3000, data |-> Str("a")]>>
    /\ QueueOf(Engines, Str("q")) = <<Str("a")>>

(***************************************************************************)
(* SpecWorkers: every client sends ENQUEUE on the queue "q", each time     *)
(* with a value no other request carries, and DEQUEUE on "q"; the requests *)
(* dispatched are recorded in hist.                                        *)
(***************************************************************************)
\* The value of the next ENQUEUE of connection c.
Entry(c) == Integer(10 * c + nread[c])

InitWorkers == InitWith({"hist"})

NextWorkers ==
  \/ \E c \in Peers : Connect(c)
  \/ Accept
  \/ \E c \in Conns :
       TotalRead < MaxWorkerReqs /\ Read(c, Enqueue(Str("q"), Entry(c)))
  \/ \E c \in Conns :
       TotalRead < MaxWorkerReqs /\ Read(c, Dequeue(Str("q")))
  \/ \E c \in Conns : ReadEOF(c)
  \/ \E c \in Conns : Dispatch(c)
  \/ \E c \in Conns : Write(c)

SpecWorkers == InitWorkers /\ [][NextWorkers]_vars

\* The entries the DEQUEUEs dispatched so far have returned, in dispatch
\* order (a DEQUEUE that found the queue empty returned none).
Returned == SelectSeq(Replies(Dequeues(Str("q"))), LAMBDA v : v # None)

\* C18: under every interleaving of the ENQUEUEs and DEQUEUEs of the
\* connections, no entry is returned by two DEQUEUEs, every entry
\* enqueued is either returned by a DEQUEUE or still in the queue and
\* never both, and the number enqueued is the number returned plus the
\* number in the queue.
DequeueOnce ==
  LET enq == Enqueued(Str("q"))
      q == QueueOf(Engines, Str("q"))
  IN  /\ \A i, j \in DOMAIN Returned : Returned[i] = Returned[j] => i = j
      /\ Range(enq) = Range(Returned) \cup Range(q)
      /\ Range(Returned) \cap Range(q) = {}
      /\ Len(enq) = Len(Returned) + Len(q)

\* C18 witness: two connections have each been returned an entry, and the
\* entries differ.
DequeueOnceWitness ==
  /\ Len(Returned) = 2
  /\ Len(Enqueued(Str("q"))) = 2
  /\ \E i, j \in DOMAIN hist :
       /\ hist[i].req = Dequeue(Str("q")) /\ hist[j].req = Dequeue(Str("q"))
       /\ hist[i].conn # hist[j].conn
       /\ hist[i].resp # None /\ hist[j].resp # None
       /\ hist[i].resp # hist[j].resp

(***************************************************************************)
(* SpecPollers: every client sends ADD, each time with a payload no other  *)
(* request carries, due at 00:00:00 or at 00:00:05, and READ with the      *)
(* cutoff 00:00:03 or 00:00:05; the requests dispatched are recorded in    *)
(* hist.                                                                   *)
(***************************************************************************)
AddEntry(timestamp, c) == List(<<Str("ADD"), Str(timestamp), Entry(c)>>)

PollReqs(c) ==
  { AddEntry("2024-01-01 00:00:00", c), AddEntry("2024-01-01 00:00:05", c),
    ReadDue("2024-01-01 00:00:03"), ReadDue("2024-01-01 00:00:05") }

InitPollers == InitWith({"hist"})

NextPollers ==
  \/ \E c \in Peers : Connect(c)
  \/ Accept
  \/ \E c \in Conns : \E d \in PollReqs(c) :
       TotalRead < MaxPollReqs /\ Read(c, d)
  \/ \E c \in Conns : ReadEOF(c)
  \/ \E c \in Conns : Dispatch(c)
  \/ \E c \in Conns : Write(c)

SpecPollers == InitPollers /\ [][NextPollers]_vars

\* The payloads added so far, in dispatch order.
Added ==
  LET es == SelectSeq(hist, LAMBDA e : e.req.a[1] = Str("ADD"))
  IN  [i \in 1 .. Len(es) |-> es[i].req.a[3]]

\* The READs dispatched so far.
Reads == SelectSeq(hist, LAMBDA e : e.req.a[1] = Str("READ"))

\* The payloads of the replies es, one after the other.
RECURSIVE Delivered(_)
Delivered(es) ==
  IF es = <<>> THEN <<>> ELSE Head(es).resp.a \o Delivered(Tail(es))

\* C19: under every interleaving of the ADDs and READs of the connections,
\* no entry is in the replies of two READs (nor twice in one), every entry
\* added is either in the reply of a READ or still in the schedule and
\* never both, and the number added is the number delivered plus the
\* number in the schedule: no entry is removed without being returned.
DeliverOnce ==
  LET got == Delivered(Reads)
      left == Payloads(_schedule)
  IN  /\ \A i, j \in DOMAIN got : got[i] = got[j] => i = j
      /\ Range(Added) = Range(got) \cup Range(left)
      /\ Range(got) \cap Range(left) = {}
      /\ Len(Added) = Len(got) + Len(left)

\* C19 witness: two connections have polled with the same cutoff, the
\* first has been returned the entry due and the second nothing, and an
\* entry not yet due is still in the schedule.
DeliverOnceWitness ==
  /\ Len(Reads) = 2
  /\ Reads[1].conn # Reads[2].conn
  /\ Reads[1].req = Reads[2].req
  /\ Len(Reads[1].resp.a) = 1
  /\ Reads[2].resp = List(<<>>)
  /\ Len(_schedule) = 1

(***************************************************************************)
(* SpecNull: peers that write ENQUEUE and SET requests whose value is a    *)
(* bulk string or the Null bulk string ($-1), and DEQUEUE, GET and POP;    *)
(* the handlers decode the bytes of the stream.                            *)
(***************************************************************************)
Pop(key) == List(<<Str("POP"), key>>)

NullReqs ==
  { Enqueue(Str("q"), None), Enqueue(Str("q"), Str("a")), Dequeue(Str("q")),
    Set(Str("k"), None), Set(Str("k"), Str("1")), Get(Str("k")),
    Pop(Str("k")) }

InitNull == InitWith({})

NextNull ==
  \/ \E c \in Peers : Connect(c)
  \/ Accept
  \/ \E c \in Conns : \E v \in NullReqs :
       TotalSent < MaxNullSends /\ write_response(c, v)
  \/ \E c \in Conns : close(c)
  \/ \E c \in Conns : Recv(c)
  \/ \E c \in Conns : Dispatch(c)
  \/ \E c \in Conns : Write(c)

SpecNull == InitNull /\ [][NextNull]_vars

\* C20 (the claim as stated; the code violates it): a DEQUEUE is answered
\* Null only if the queue is empty when it is dispatched, and a GET or a
\* POP is answered Null only if the key is absent when it is dispatched.
NullMeansAbsent ==
  [][\A c \in Conns :
       (Dispatched(c) /\ resp'[c] = None)
       => /\ data[c] = Dequeue(Str("q")) => QueueOf(Engines, Str("q")) = <<>>
          /\ data[c] \in {Get(Str("k")), Pop(Str("k"))}
               => Str("k") \notin DOMAIN _kv
    ]_vars

\* What the code does guarantee: a Null reply to DEQUEUE means that the
\* queue is empty or that its head is a stored Null, a Null reply to GET or
\* POP that the key is absent or that its value is a stored Null.
NullMeansAbsentOrStored ==
  [][\A c \in Conns :
       (Dispatched(c) /\ resp'[c] = None)
       => /\ data[c] = Dequeue(Str("q"))
               => \/ QueueOf(Engines, Str("q")) = <<>>
                  \/ Head(QueueOf(Engines, Str("q"))) = None
          /\ data[c] \in {Get(Str("k")), Pop(Str("k"))}
               => \/ Str("k") \notin DOMAIN _kv
                  \/ _kv[Str("k")] = None
    ]_vars

====
